---- MODULE Spec2Model ----
(***************************************************************************)
(* Model of the workspace scripts of ModernAppTemplate:                    *)
(*   scripts/workspace.py               get_repos                          *)
(*   scripts/push_all.py                main (pre-flight, abort, push)     *)
(*   scripts/find_template_violations.py  the template drift detector      *)
(*                                                                         *)
(* Strings whose characters matter (template paths, _exclude entries) are  *)
(* sequences of tokens; every token stands for a fixed piece of text       *)
(* ("/" is the separator, ".jinja" the template suffix).  File-system      *)
(* paths of the workspace are sequences of path components.                *)
(***************************************************************************)
EXTENDS Integers, Sequences, FiniteSets, TLC

VARIABLES
    pc,             \* position of the running script
    exitCode,       \* -1 while running, else the process exit code
    \* ---- workspace.py / push_all.py
    folders,        \* "folders" of the workspace descriptor
    gitDirs,        \* the paths that contain a .git entry
    repos,          \* result of get_repos(): sequence of [name, path]
    idx,            \* loop position in main's for loops
    statusRes,      \* what `git status --porcelain` returned, per repo index
    dirty,          \* push_all.main: dirty
    printed,        \* push_all.main: the dirty repositories printed
    cmdLog,         \* the git commands that mutate the remote, in order
    \* ---- find_template_violations.py: what the run reads
    tree,           \* the regular files under template_dir (relative paths)
    skipCfg,        \* copier.yml: _skip_if_exists
    excludeCfg,     \* copier.yml: _exclude (a list of entries)
    answers,        \* .copier-answers.yml: flag -> value, absent flags left out
    \* ---- find_template_violations.py: main's locals
    excluded,       \* result of evaluate_excludes
    template_owned, \* classify_files: list of [out, src, jinja]
    app_owned,      \* classify_files: list of output paths
    excluded_files, \* classify_files: list of output paths
    \* ---- find_template_violations.py: the app as the run observes it
    appExists,      \* output path -> (app_dir / path).exists()
    appModified,    \* output path -> git diff --name-only <commit> HEAD lists it
    appSame,        \* source path -> app file bytes = template file bytes
    \* ---- find_template_violations.py: findings
    git_violations, \* main: list of output paths (the "file" of each entry)
    missing,        \* main: list of output paths
    diverged,       \* compare_to_source: list of [file, source]
    jinja_files,    \* compare_to_source: list of [file, source]
    pre_existing,   \* main: diverged without the git violations
    jinja_non_git,  \* main: the Jinja files listed in the report
    had_findings,   \* main: had_findings
    summary,        \* the five numbers of the summary
    report,         \* the parts of the report printed so far
    \* ---- changes_since_sync.py
    repoFacts,      \* what review_repo read, per repo index
    printedRepos,   \* the entries print_repo printed, in order
    found_any       \* main: found_any

pushVars == <<folders, gitDirs, repos, idx, statusRes, dirty, printed, cmdLog>>
cfgVars == <<tree, skipCfg, excludeCfg, answers>>
classVars == <<excluded, template_owned, app_owned, excluded_files>>
envVars == <<appExists, appModified, appSame>>
findVars == <<git_violations, missing, diverged, jinja_files, pre_existing,
              jinja_non_git, had_findings, summary, report>>
detVars == <<cfgVars, classVars, envVars, findVars>>
syncVars == <<repoFacts, printedRepos, found_any>>
vars == <<pc, exitCode, pushVars, detVars, syncVars>>

(***************************************************************************)
(* Bounds                                                                  *)
(***************************************************************************)
MaxFolders == 1     \* entries in the workspace descriptor's "folders"
MaxFiles == 3       \* regular files under the template directory
MaxRules == 2       \* entries of copier.yml's _exclude
MaxDriftFiles == 3  \* template files in a run of the whole drift detector

(***************************************************************************)
(* Generic helpers                                                         *)
(***************************************************************************)
Range(s) == {s[i] : i \in 1..Len(s)}

SeqToSet(s) == Range(s)

SeqsUpTo(S, n) == UNION {[1..k -> S] : k \in 0..n}

(***************************************************************************)
(* workspace.py                                                            *)
(***************************************************************************)
NoName == "<absent>"

\* WORKSPACE_FILE.parent
workspace_dir == <<"home", "ws">>

\* Path.resolve() of base / rel: "." is dropped and ".." removes the last
\* component.
RECURSIVE Resolve(_, _)
Resolve(base, rel) ==
    IF rel = <<>> THEN base
    ELSE IF Head(rel) = "." THEN Resolve(base, Tail(rel))
    ELSE IF Head(rel) = ".." THEN
        Resolve(IF base = <<>> THEN base ELSE SubSeq(base, 1, Len(base) - 1), Tail(rel))
    ELSE Resolve(Append(base, Head(rel)), Tail(rel))

\* Path.name: the last component
PathName(p) == IF p = <<>> THEN "" ELSE p[Len(p)]

\* (path / ".git").exists()
HasGit(path) == path \in gitDirs

\* the two entries get_repos appends before reading the folders
FixedRepos ==
    << [name |-> "frontend", path |-> <<"frontend">>],
       [name |-> "backend", path |-> <<"backend">>] >>

\* one iteration of the loop over workspace["folders"]
FolderRepo(folder) ==
    LET path == Resolve(workspace_dir, folder.path)
        name == IF folder.name = NoName THEN PathName(path) ELSE folder.name
    IN  IF ~HasGit(path) THEN <<>> ELSE << [name |-> name, path |-> path] >>

RECURSIVE FolderRepos(_)
FolderRepos(fs) ==
    IF fs = <<>> THEN <<>> ELSE FolderRepo(Head(fs)) \o FolderRepos(Tail(fs))

get_repos == FixedRepos \o FolderRepos(folders)

\* the descriptor entries and the directories the model draws from
FolderEntries ==
    { [path |-> <<".">>, name |-> "ModernAppTemplate"],
      [path |-> <<"..", "app">>, name |-> NoName] }

GitDirCandidates ==
    { <<"frontend">>, <<"backend">>, <<"home", "ws">>, <<"home", "app">> }

(***************************************************************************)
(* push_all.py                                                             *)
(***************************************************************************)
\* subprocess results of `git status --porcelain`: return code and the
\* lines of stdout ("" is a blank line)
StatusResults ==
    { [rc |-> 0, stdout |-> <<>>],
      [rc |-> 0, stdout |-> <<"">>],
      [rc |-> 0, stdout |-> <<"M a.py", "?? b.py">>],
      [rc |-> 128, stdout |-> <<>>] }

\* str.strip() on the output, at line granularity: leading and trailing
\* blank lines go
RECURSIVE LStrip(_)
LStrip(s) == IF s # <<>> /\ Head(s) = "" THEN LStrip(Tail(s)) ELSE s

RECURSIVE RStrip(_)
RStrip(s) ==
    IF s # <<>> /\ s[Len(s)] = "" THEN RStrip(SubSeq(s, 1, Len(s) - 1)) ELSE s

Strip(s) == RStrip(LStrip(s))

\* the variables of changes_since_sync.py while another script runs
SyncIdle ==
    /\ repoFacts = <<>>
    /\ printedRepos = <<>>
    /\ found_any = FALSE

\* the drift detector's variables while another script runs
DetectorIdle ==
    /\ tree = {}
    /\ skipCfg = {}
    /\ excludeCfg = <<>>
    /\ answers = <<>>
    /\ excluded = {}
    /\ template_owned = <<>>
    /\ app_owned = <<>>
    /\ excluded_files = <<>>
    /\ appExists = <<>>
    /\ appModified = <<>>
    /\ appSame = <<>>
    /\ git_violations = <<>>
    /\ missing = <<>>
    /\ diverged = <<>>
    /\ jinja_files = <<>>
    /\ pre_existing = <<>>
    /\ jinja_non_git = <<>>
    /\ had_findings = FALSE
    /\ summary = <<>>
    /\ report = <<>>

PushInit ==
    /\ DetectorIdle
    /\ SyncIdle
    /\ pc = "get_repos"
    /\ exitCode = -1
    /\ folders \in SeqsUpTo(FolderEntries, MaxFolders)
    /\ gitDirs \in SUBSET GitDirCandidates
    /\ repos = <<>>
    /\ idx = 0
    /\ statusRes = <<>>
    /\ dirty = <<>>
    /\ printed = <<>>
    /\ cmdLog = <<>>

\* main, line 15: repos = get_repos()
GetRepos ==
    /\ pc = "get_repos"
    /\ repos' = get_repos
    /\ idx' = 1
    /\ pc' = "preflight"
    /\ UNCHANGED <<exitCode, folders, gitDirs, statusRes, dirty, printed, cmdLog>>
    /\ UNCHANGED <<detVars, syncVars>>

\* PreflightStatus with the dirty list restarted at every clean repository
PreflightStatus_Reset ==
    /\ pc = "preflight"
    /\ idx <= Len(repos)
    /\ \E status \in StatusResults :
        /\ statusRes' = Append(statusRes, status)
        /\ dirty' =
            IF Strip(status.stdout) # <<>>
            THEN Append(dirty, [name |-> repos[idx].name, path |-> repos[idx].path,
                                changes |-> Strip(status.stdout)])
            ELSE <<>>
    /\ idx' = idx + 1
    /\ UNCHANGED <<pc, exitCode, folders, gitDirs, repos, printed, cmdLog>>
    /\ UNCHANGED <<detVars, syncVars>>

\* main, lines 19-22: one iteration of the pre-flight loop
PreflightStatus ==
    /\ pc = "preflight"
    /\ idx <= Len(repos)
    /\ \E status \in StatusResults :
        /\ statusRes' = Append(statusRes, status)
        /\ dirty' =
            IF Strip(status.stdout) # <<>>
            THEN Append(dirty, [name |-> repos[idx].name, path |-> repos[idx].path,
                                changes |-> Strip(status.stdout)])
            ELSE dirty
    /\ idx' = idx + 1
    /\ UNCHANGED <<pc, exitCode, folders, gitDirs, repos, printed, cmdLog>>
    /\ UNCHANGED <<detVars, syncVars>>

\* main, lines 24-31: the loop is over; abort when something is dirty
AbortDirty ==
    /\ pc = "preflight"
    /\ idx > Len(repos)
    /\ dirty # <<>>
    /\ printed' = dirty
    /\ exitCode' = 1
    /\ pc' = "exited"
    /\ UNCHANGED <<folders, gitDirs, repos, idx, statusRes, dirty, cmdLog>>
    /\ UNCHANGED <<detVars, syncVars>>

\* main, line 24 not taken: go on to the push loop
StartPush ==
    /\ pc = "preflight"
    /\ idx > Len(repos)
    /\ dirty = <<>>
    /\ pc' = "push"
    /\ idx' = 1
    /\ UNCHANGED <<exitCode, folders, gitDirs, repos, statusRes, dirty, printed, cmdLog>>
    /\ UNCHANGED <<detVars, syncVars>>

\* PushRepo that leaves out the tag push after a failed push
PushRepo_SkipTagsOnFail ==
    /\ pc = "push"
    /\ idx <= Len(repos)
    /\ \E pushRc \in {0, 1}, tagsRc \in {0, 1} :
        cmdLog' = cmdLog \o
            (IF pushRc # 0
             THEN << [cmd |-> "push", repo |-> idx, rc |-> pushRc] >>
             ELSE << [cmd |-> "push", repo |-> idx, rc |-> pushRc],
                     [cmd |-> "push --tags", repo |-> idx, rc |-> tagsRc] >>)
    /\ idx' = idx + 1
    /\ UNCHANGED <<pc, exitCode, folders, gitDirs, repos, statusRes, dirty, printed>>
    /\ UNCHANGED <<detVars, syncVars>>

\* main, lines 34-47: one iteration of the push loop; subprocess.run does
\* not raise on a failing command
PushRepo ==
    /\ pc = "push"
    /\ idx <= Len(repos)
    /\ \E pushRc \in {0, 1}, tagsRc \in {0, 1} :
        cmdLog' = cmdLog \o
            << [cmd |-> "push", repo |-> idx, rc |-> pushRc],
               [cmd |-> "push --tags", repo |-> idx, rc |-> tagsRc] >>
    /\ idx' = idx + 1
    /\ UNCHANGED <<pc, exitCode, folders, gitDirs, repos, statusRes, dirty, printed>>
    /\ UNCHANGED <<detVars, syncVars>>

\* main, line 49 and the return
PushDone ==
    /\ pc = "push"
    /\ idx > Len(repos)
    /\ pc' = "exited"
    /\ exitCode' = 0
    /\ UNCHANGED pushVars
    /\ UNCHANGED <<detVars, syncVars>>

PushNext ==
    \/ GetRepos
    \/ PreflightStatus
    \/ AbortDirty
    \/ StartPush
    \/ PushRepo
    \/ PushDone

SpecPush == PushInit /\ [][PushNext]_vars

(***************************************************************************)
(* changes_since_sync.py                                                   *)
(***************************************************************************)
\* subprocess results of `git log -1 --format="%H %ai" -- .copier-answers.yml`
SyncLogResults ==
    { [rc |-> 0, stdout |-> <<"abc123", "2024-01-01 10:00:00 +0100">>],
      [rc |-> 0, stdout |-> <<>>],
      [rc |-> 128, stdout |-> <<>>] }

\* subprocess results of the `git log --oneline` and `git diff` of a
\* repository that has a sync commit
SinceResults ==
    { [rc |-> 0, stdout |-> "changes"],
      [rc |-> 0, stdout |-> ""],
      [rc |-> 1, stdout |-> ""] }

\* what review_repo may read in one repository: whether the answers file
\* exists and, when it does, the result of get_sync_commit's git log and,
\* when that names a commit, of the two commands that follow
RepoFacts ==
    { [answers |-> FALSE, sync |-> [rc |-> 0, stdout |-> <<>>],
       since |-> [rc |-> 0, stdout |-> ""]] }
    \cup { [answers |-> TRUE, sync |-> r, since |-> [rc |-> 0, stdout |-> ""]] :
            r \in {q \in SyncLogResults : q.rc # 0 \/ q.stdout = <<>>} }
    \cup { [answers |-> TRUE, sync |-> r, since |-> c] :
            r \in {q \in SyncLogResults : q.rc = 0 /\ q.stdout # <<>>}, c \in SinceResults }

\* get_sync_commit: the SHA, or "" for None
get_sync_commit(res) ==
    IF res.rc # 0 \/ res.stdout = <<>> THEN "" ELSE res.stdout[1]

\* review_repo: "none" for None, else the info dictionary
review_repo(name, path, facts) ==
    IF ~facts.answers THEN [kind |-> "none"]
    ELSE LET sync_sha == get_sync_commit(facts.sync)
         IN  IF sync_sha = ""
             THEN [kind |-> "error", name |-> name, path |-> path]
             ELSE [kind |-> "report", name |-> name, path |-> path,
                   sync_sha |-> sync_sha,
                   commits |-> IF facts.since.rc = 0 THEN facts.since.stdout ELSE ""]

SyncInit ==
    /\ DetectorIdle
    /\ pc = "sync_get_repos"
    /\ exitCode = -1
    /\ folders \in SeqsUpTo(FolderEntries, MaxFolders)
    /\ gitDirs \in SUBSET GitDirCandidates
    /\ repos = <<>>
    /\ idx = 0
    /\ statusRes = <<>>
    /\ dirty = <<>>
    /\ printed = <<>>
    /\ cmdLog = <<>>
    /\ repoFacts = <<>>
    /\ printedRepos = <<>>
    /\ found_any = FALSE

\* main, line 115: get_repos()
SyncGetRepos ==
    /\ pc = "sync_get_repos"
    /\ repos' = get_repos
    /\ idx' = 1
    /\ pc' = "sync_loop"
    /\ UNCHANGED <<exitCode, folders, gitDirs, statusRes, dirty, printed, cmdLog>>
    /\ UNCHANGED <<detVars, syncVars>>

\* SyncRepo that gives up on the remaining repositories after an error
SyncRepo_StopOnError ==
    /\ pc = "sync_loop"
    /\ idx <= Len(repos)
    /\ \E facts \in RepoFacts :
        LET info == review_repo(repos[idx].name, repos[idx].path, facts)
        IN  /\ repoFacts' = Append(repoFacts, facts)
            /\ IF info.kind = "none"
               THEN UNCHANGED <<found_any, printedRepos>>
               ELSE /\ found_any' = TRUE
                    /\ printedRepos' = Append(printedRepos, info)
            /\ idx' = IF info.kind = "error" THEN Len(repos) + 1 ELSE idx + 1
    /\ UNCHANGED <<pc, exitCode, folders, gitDirs, repos, statusRes, dirty, printed, cmdLog>>
    /\ UNCHANGED detVars

\* main, lines 115-121: one iteration of the loop over the repositories
SyncRepo ==
    /\ pc = "sync_loop"
    /\ idx <= Len(repos)
    /\ \E facts \in RepoFacts :
        LET info == review_repo(repos[idx].name, repos[idx].path, facts)
        IN  /\ repoFacts' = Append(repoFacts, facts)
            /\ IF info.kind = "none"
               THEN UNCHANGED <<found_any, printedRepos>>
               ELSE /\ found_any' = TRUE
                    /\ printedRepos' = Append(printedRepos, info)
    /\ idx' = idx + 1
    /\ UNCHANGED <<pc, exitCode, folders, gitDirs, repos, statusRes, dirty, printed, cmdLog>>
    /\ UNCHANGED detVars

\* main, lines 123-126: the loop is over
SyncDone ==
    /\ pc = "sync_loop"
    /\ idx > Len(repos)
    /\ printedRepos' =
        IF ~found_any THEN Append(printedRepos, [kind |-> "no_repos"]) ELSE printedRepos
    /\ exitCode' = 0
    /\ pc' = "exited"
    /\ UNCHANGED <<repoFacts, found_any, pushVars, detVars>>

SyncNext ==
    \/ SyncGetRepos
    \/ SyncRepo
    \/ SyncDone

SpecSync == SyncInit /\ [][SyncNext]_vars

(***************************************************************************)
(* find_template_violations.py: strings                                    *)
(*                                                                         *)
(* A path or an _exclude entry is a sequence of tokens.  The tokens "d",   *)
(* "x", "y" are one-character names, "/" is the separator, ".jinja" the    *)
(* six characters of the template suffix, " " one white-space character,   *)
(* "{%", "%}", "{{" the Jinja delimiters, and "if", "not", "endif",        *)
(* "use_a", "use_b" are words.                                             *)
(***************************************************************************)
At(s, i) == IF i \in 1..Len(s) THEN s[i] ELSE "<end>"

\* str.startswith
StartsWith(s, prefix) ==
    Len(prefix) <= Len(s) /\ SubSeq(s, 1, Len(prefix)) = prefix

\* str.strip() on a token string: white space at both ends goes
RECURSIVE LStripWs(_)
LStripWs(s) == IF s # <<>> /\ Head(s) = " " THEN LStripWs(Tail(s)) ELSE s

RECURSIVE RStripWs(_)
RStripWs(s) ==
    IF s # <<>> /\ s[Len(s)] = " " THEN RStripWs(SubSeq(s, 1, Len(s) - 1)) ELSE s

StripWs(s) == RStripWs(LStripWs(s))

\* \w+ : a word token
IsWord(t) == t \in {"if", "not", "endif", "use_a", "use_b", "d", "x", "y"}

\* \s* from position i: the first position at or after i that holds no
\* white space
RECURSIVE SkipWs(_, _)
SkipWs(s, i) == IF At(s, i) = " " THEN SkipWs(s, i + 1) ELSE i

\* \{%\s*endif\s*%\} matches at position k
EndifAt(s, k) ==
    /\ At(s, k) = "{%"
    /\ LET j == SkipWs(s, k + 1)
       IN  /\ At(s, j) = "endif"
           /\ At(s, SkipWs(s, j + 1)) = "%}"

\* pattern.match(entry.strip()) for
\*   \{%\s*if\s+not\s+(\w+)\s*%\}(.+?)\{%\s*endif\s*%\}
\* [ok, flag, path]: whether it matches, group 1, group 2
PatternMatch(entry) ==
    LET s == StripWs(entry)
        iIf == SkipWs(s, 2)
        iNot == SkipWs(s, iIf + 1)
        iFlag == SkipWs(s, iNot + 1)
        iClose == SkipWs(s, iFlag + 1)
        ends == {k \in (iClose + 2)..Len(s) : EndifAt(s, k)}
        head == /\ At(s, 1) = "{%"
                /\ At(s, iIf) = "if"
                /\ iNot > iIf + 1
                /\ At(s, iNot) = "not"
                /\ iFlag > iNot + 1
                /\ IsWord(At(s, iFlag))
                /\ At(s, iClose) = "%}"
    IN  IF head /\ ends # {}
        THEN LET k == CHOOSE e \in ends : \A e2 \in ends : e <= e2
             IN  [ok |-> TRUE, flag |-> s[iFlag], path |-> SubSeq(s, iClose + 1, k - 1)]
        ELSE [ok |-> FALSE, flag |-> "", path |-> <<>>]

\* answers.get(flag_name, False)
AnswersGet(flag_name) ==
    IF flag_name \in DOMAIN answers THEN answers[flag_name] ELSE FALSE

\* evaluate_excludes with answers.get(flag_name, True)
RECURSIVE EvaluateExcludes_DefaultTrue(_)
EvaluateExcludes_DefaultTrue(entries) ==
    IF entries = <<>> THEN {}
    ELSE LET m == PatternMatch(Head(entries))
             rest == EvaluateExcludes_DefaultTrue(Tail(entries))
         IN  IF ~m.ok THEN rest
             ELSE IF ~(IF m.flag \in DOMAIN answers THEN answers[m.flag] ELSE TRUE)
                  THEN {StripWs(m.path)} \cup rest
                  ELSE rest

\* evaluate_excludes: the loop over config.get("_exclude", [])
RECURSIVE EvaluateExcludes(_)
EvaluateExcludes(entries) ==
    IF entries = <<>> THEN {}
    ELSE LET m == PatternMatch(Head(entries))
             rest == EvaluateExcludes(Tail(entries))
         IN  IF ~m.ok THEN rest
             ELSE IF ~AnswersGet(m.flag)
                  THEN {StripWs(m.path)} \cup rest
                  ELSE rest

(***************************************************************************)
(* find_template_violations.py: inventory and classification               *)
(***************************************************************************)
\* the template files the model draws from, in the order sorted() gives
\* them: d/y, d/y.jinja, dx, x, x.jinja, x.jinja.jinja, {{x.jinja
SortedPaths ==
    << <<"d", "/", "y">>,
       <<"d", "/", "y", ".jinja">>,
       <<"d", "x">>,
       <<"x">>,
       <<"x", ".jinja">>,
       <<"x", ".jinja", ".jinja">>,
       <<"{{", "x", ".jinja">> >>

\* rel.endswith(".jinja")
EndsWithJinja(rel) == rel # <<>> /\ rel[Len(rel)] = ".jinja"

\* the path with every trailing ".jinja" removed
RECURSIVE StripAllJinja(_)
StripAllJinja(rel) ==
    IF rel # <<>> /\ rel[Len(rel)] = ".jinja"
    THEN StripAllJinja(SubSeq(rel, 1, Len(rel) - 1)) ELSE rel

\* TemplateFile with the suffix removed as often as it occurs
TemplateFile_StripAll(rel) ==
    IF \E i \in 1..Len(rel) : rel[i] \in {"{{", "{%"} THEN <<>>
    ELSE << [out |-> StripAllJinja(rel), src |-> rel,
             jinja |-> (rel # <<>> /\ rel[Len(rel)] = ".jinja")] >>

\* one iteration of enumerate_template_files' loop: the triple, or nothing
\* for a path that holds a Jinja delimiter
TemplateFile(rel) ==
    IF \E i \in 1..Len(rel) : rel[i] \in {"{{", "{%"} THEN <<>>
    ELSE LET is_jinja == EndsWithJinja(rel)
             output_path == IF is_jinja THEN SubSeq(rel, 1, Len(rel) - 1) ELSE rel
         IN  << [out |-> output_path, src |-> rel, jinja |-> is_jinja] >>

RECURSIVE EnumerateFrom(_)
EnumerateFrom(paths) ==
    IF paths = <<>> THEN <<>>
    ELSE (IF Head(paths) \in tree THEN TemplateFile(Head(paths)) ELSE <<>>)
         \o EnumerateFrom(Tail(paths))

\* enumerate_template_files(template_dir)
enumerate_template_files == EnumerateFrom(SortedPaths)

\* classify_files' test for the excluded class
IsExcluded(output_path, excl) ==
    \/ output_path \in excl
    \/ \E e \in excl : StartsWith(output_path, Append(e, "/"))

\* classify_files with the exclusion test made before the _skip_if_exists
\* test
RECURSIVE ClassifyFiles_ExcludedFirst(_, _, _)
ClassifyFiles_ExcludedFirst(all_files, skip_if_exists, excl) ==
    IF all_files = <<>> THEN [template_owned |-> <<>>, app_owned |-> <<>>, excluded_files |-> <<>>]
    ELSE LET f == Head(all_files)
             r == ClassifyFiles_ExcludedFirst(Tail(all_files), skip_if_exists, excl)
         IN  IF IsExcluded(f.out, excl)
             THEN [r EXCEPT !.excluded_files = <<f.out>> \o @]
             ELSE IF f.out \in skip_if_exists
             THEN [r EXCEPT !.app_owned = <<f.out>> \o @]
             ELSE [r EXCEPT !.template_owned = <<f>> \o @]

\* classify_files with `if` in place of `elif`: an app-owned file goes on
\* to the exclusion test
RECURSIVE ClassifyFiles_NoElif(_, _, _)
ClassifyFiles_NoElif(all_files, skip_if_exists, excl) ==
    IF all_files = <<>> THEN [template_owned |-> <<>>, app_owned |-> <<>>, excluded_files |-> <<>>]
    ELSE LET f == Head(all_files)
             r == ClassifyFiles_NoElif(Tail(all_files), skip_if_exists, excl)
             r1 == IF f.out \in skip_if_exists
                   THEN [r EXCEPT !.app_owned = <<f.out>> \o @] ELSE r
         IN  IF IsExcluded(f.out, excl)
             THEN [r1 EXCEPT !.excluded_files = <<f.out>> \o @]
             ELSE [r1 EXCEPT !.template_owned = <<f>> \o @]

\* classify_files: the loop over all_files
RECURSIVE ClassifyFiles(_, _, _)
ClassifyFiles(all_files, skip_if_exists, excl) ==
    IF all_files = <<>> THEN [template_owned |-> <<>>, app_owned |-> <<>>, excluded_files |-> <<>>]
    ELSE LET f == Head(all_files)
             r == ClassifyFiles(Tail(all_files), skip_if_exists, excl)
         IN  IF f.out \in skip_if_exists
             THEN [r EXCEPT !.app_owned = <<f.out>> \o @]
             ELSE IF IsExcluded(f.out, excl)
             THEN [r EXCEPT !.excluded_files = <<f.out>> \o @]
             ELSE [r EXCEPT !.template_owned = <<f>> \o @]

(***************************************************************************)
(* find_template_violations.py: the configurations the model draws from    *)
(***************************************************************************)
Flags == {"use_a", "use_b"}

\* {% if not FLAG %}PATH{% endif %}
IfNotRule(flag, path) ==
    <<"{%", " ", "if", " ", "not", " ", flag, " ", "%}">> \o path
        \o <<"{%", " ", "endif", " ", "%}">>

\* the same rule written  {%if  not FLAG%} PATH {%endif%}  with white
\* space around it
IfNotRuleSpaced(flag, path) ==
    <<" ", "{%", "if", " ", " ", "not", " ", flag, "%}", " ">> \o path
        \o <<" ", "{%", "endif", "%}", " ">>

\* {% if FLAG %}PATH{% endif %}
IfRule(flag, path) ==
    <<"{%", " ", "if", " ", flag, " ", "%}">> \o path
        \o <<"{%", " ", "endif", " ", "%}">>

ExcludeEntries ==
    { IfNotRule("use_a", <<"d">>),
      IfNotRule("use_b", <<"d", "/", "y">>),
      IfNotRuleSpaced("use_b", <<"d">>),
      IfRule("use_a", <<"x">>) }

SkipCandidates == { <<"x">>, <<"d", "/", "y">> }

AnswerMaps == UNION {[D -> BOOLEAN] : D \in SUBSET Flags}

Trees == {t \in SUBSET Range(SortedPaths) : Cardinality(t) <= MaxFiles}

\* main's locals before anything is computed
DetectorLocalsInit ==
    /\ excluded = {}
    /\ template_owned = <<>>
    /\ app_owned = <<>>
    /\ excluded_files = <<>>
    /\ appExists = <<>>
    /\ appModified = <<>>
    /\ appSame = <<>>
    /\ git_violations = <<>>
    /\ missing = <<>>
    /\ diverged = <<>>
    /\ jinja_files = <<>>
    /\ pre_existing = <<>>
    /\ jinja_non_git = <<>>
    /\ had_findings = FALSE
    /\ summary = <<>>
    /\ report = <<>>

\* the other scripts' variables while the drift detector runs
PushIdle ==
    /\ folders = <<>>
    /\ gitDirs = {}
    /\ repos = <<>>
    /\ idx = 0
    /\ statusRes = <<>>
    /\ dirty = <<>>
    /\ printed = <<>>
    /\ cmdLog = <<>>

\* main, lines 356-365: load the configuration and classify the files
LoadAndClassify ==
    /\ pc = "load"
    /\ LET excl == EvaluateExcludes(excludeCfg)
           cls == ClassifyFiles(enumerate_template_files, skipCfg, excl)
       IN  /\ excluded' = excl
           /\ template_owned' = cls.template_owned
           /\ app_owned' = cls.app_owned
           /\ excluded_files' = cls.excluded_files
    /\ pc' = "find_commit"
    /\ UNCHANGED <<exitCode, pushVars, syncVars, cfgVars, envVars, findVars>>

\* every template inventory, _skip_if_exists, _exclude and answers within
\* the bounds, taken through the classification
ClassifyInit ==
    /\ PushIdle
    /\ SyncIdle
    /\ DetectorLocalsInit
    /\ pc = "load"
    /\ exitCode = -1
    /\ tree \in Trees
    /\ skipCfg \in SUBSET SkipCandidates
    /\ excludeCfg \in SeqsUpTo(ExcludeEntries, MaxRules)
    /\ answers \in AnswerMaps

ClassifyNext == LoadAndClassify

SpecClassify == ClassifyInit /\ [][ClassifyNext]_vars

(***************************************************************************)
(* find_template_violations.py: main                                       *)
(***************************************************************************)
\* the output paths and the non-Jinja sources of the files in the tree
TreeOutputs(t) ==
    {f.out : f \in UNION {SeqToSet(TemplateFile(rel)) : rel \in t}}

TreeSources(t) ==
    {f.src : f \in {g \in UNION {SeqToSet(TemplateFile(rel)) : rel \in t} : ~g.jinja}}

DriftPaths ==
    { <<"d", "/", "y">>, <<"d", "/", "y", ".jinja">>, <<"x">>, <<"x", ".jinja">> }

\* main, lines 331-354: the three checks made before the configuration is
\* read; what the file system holds is drawn here
CheckPreconditions ==
    /\ pc = "start"
    /\ \E found \in {"ok", "no_answers", "no_src_path", "no_copier_yml"} :
        IF found = "ok"
        THEN /\ pc' = "load"
             /\ UNCHANGED <<exitCode, report>>
        ELSE /\ report' = Append(report, [part |-> "error", what |-> found])
             /\ exitCode' = 1
             /\ pc' = "exited"
    /\ UNCHANGED <<pushVars, syncVars, cfgVars, classVars, envVars>>
    /\ UNCHANGED <<git_violations, missing, diverged, jinja_files, pre_existing,
                   jinja_non_git, had_findings, summary>>

\* FindCopierCommit with the header printed before the commit is looked for
FindCopierCommit_HeaderFirst ==
    /\ pc = "find_commit"
    /\ \E copier_commit \in {"", "abc123"} :
        IF copier_commit = ""
        THEN /\ report' = report \o
                << [part |-> "header", what |-> "title"],
                   [part |-> "error", what |-> "no_commit"] >>
             /\ exitCode' = 1
             /\ pc' = "exited"
        ELSE /\ report' = report \o
                << [part |-> "header", what |-> "title"],
                   [part |-> "header", what |-> "inventory"],
                   [part |-> "header", what |-> "baseline"] >>
             /\ pc' = "git_section"
             /\ UNCHANGED exitCode
    /\ UNCHANGED <<pushVars, syncVars, cfgVars, classVars, envVars>>
    /\ UNCHANGED <<git_violations, missing, diverged, jinja_files, pre_existing,
                   jinja_non_git, had_findings, summary>>

\* main, lines 368-409: find_copier_commit, then the header, the feature
\* flags, the inventory and the baseline commit
FindCopierCommit ==
    /\ pc = "find_commit"
    /\ \E copier_commit \in {"", "abc123"} :
        IF copier_commit = ""
        THEN /\ report' = Append(report, [part |-> "error", what |-> "no_commit"])
             /\ exitCode' = 1
             /\ pc' = "exited"
        ELSE /\ report' = report \o
                << [part |-> "header", what |-> "title"],
                   [part |-> "header", what |-> "inventory"],
                   [part |-> "header", what |-> "baseline"] >>
             /\ pc' = "git_section"
             /\ UNCHANGED exitCode
    /\ UNCHANGED <<pushVars, syncVars, cfgVars, classVars, envVars>>
    /\ UNCHANGED <<git_violations, missing, diverged, jinja_files, pre_existing,
                   jinja_non_git, had_findings, summary>>

\* main, lines 418-438: the loop over template_owned
RECURSIVE GitLoop(_)
GitLoop(owned) ==
    IF owned = <<>> THEN [git_violations |-> <<>>, missing |-> <<>>]
    ELSE LET f == Head(owned)
             r == GitLoop(Tail(owned))
         IN  IF ~appExists[f.out]
             THEN [r EXCEPT !.missing = <<f.out>> \o @]
             ELSE IF appModified[f.out]
             THEN [r EXCEPT !.git_violations = <<f.out>> \o @]
             ELSE r

\* main, lines 411-472: section 1, the post-adoption changes
GitSection ==
    /\ pc = "git_section"
    /\ LET r == GitLoop(template_owned)
       IN  /\ git_violations' = r.git_violations
           /\ missing' = r.missing
           /\ had_findings' = (r.git_violations # <<>>)
           /\ report' = Append(report,
                IF r.git_violations # <<>>
                THEN [part |-> "post_adoption", what |-> r.git_violations]
                ELSE [part |-> "no_post_adoption", what |-> <<>>])
    /\ pc' = "source_section"
    /\ UNCHANGED <<exitCode, pushVars, syncVars, cfgVars, classVars, envVars>>
    /\ UNCHANGED <<diverged, jinja_files, pre_existing, jinja_non_git, summary>>

\* compare_to_source: the loop over template_owned
RECURSIVE compare_to_source(_)
compare_to_source(owned) ==
    IF owned = <<>> THEN [diverged |-> <<>>, jinja_files |-> <<>>]
    ELSE LET f == Head(owned)
             r == compare_to_source(Tail(owned))
             entry == [file |-> f.out, source |-> f.src]
         IN  IF ~appExists[f.out] THEN r
             ELSE IF f.jinja THEN [r EXCEPT !.jinja_files = <<entry>> \o @]
             ELSE IF ~appSame[f.src] THEN [r EXCEPT !.diverged = <<entry>> \o @]
             ELSE r

\* the parts section 2 prints, in order
SourceReport(pre, jng, also) ==
    (IF pre # <<>> THEN << [part |-> "pre_existing", what |-> pre] >> ELSE <<>>)
    \o (IF jng # <<>> THEN << [part |-> "jinja", what |-> jng] >> ELSE <<>>)
    \o (IF also # <<>> THEN << [part |-> "also_diverged", what |-> also] >> ELSE <<>>)

\* main, lines 476-544: section 2, the comparison to the template source
SourceSection ==
    /\ pc = "source_section"
    /\ LET r == compare_to_source(template_owned)
           git_violation_files == SeqToSet(git_violations)
           pre == SelectSeq(r.diverged, LAMBDA d : d.file \notin git_violation_files)
           jng == SelectSeq(r.jinja_files, LAMBDA j : j.file \notin git_violation_files)
           also == SelectSeq(r.diverged, LAMBDA d : d.file \in git_violation_files)
       IN  /\ diverged' = r.diverged
           /\ jinja_files' = r.jinja_files
           /\ pre_existing' = pre
           /\ jinja_non_git' = jng
           /\ had_findings' = (had_findings \/ pre # <<>>)
           /\ report' = report \o SourceReport(pre, jng, also)
    /\ pc' = "summary"
    /\ UNCHANGED <<exitCode, pushVars, syncVars, cfgVars, classVars, envVars>>
    /\ UNCHANGED <<git_violations, missing, summary>>

\* main, lines 569-576: the numbers behind the summary
SummaryCounts ==
    LET total_files == Len(template_owned)
        violation_files ==
            SeqToSet(git_violations) \cup {pre_existing[i].file : i \in 1..Len(pre_existing)}
        missing_set == SeqToSet(missing)
        clean_count == total_files - Cardinality(violation_files) - Cardinality(missing_set)
        jinja_only_count ==
            Len(SelectSeq(jinja_files,
                LAMBDA j : j.file \notin violation_files /\ j.file \notin missing_set))
    IN  [match |-> clean_count - jinja_only_count,
         jinja |-> jinja_only_count,
         git |-> Len(git_violations),
         pre |-> Len(pre_existing),
         missing |-> Len(missing)]

\* main, lines 548-601: section 3 (the missing files), the summary and the
\* exit code
MissingAndSummary ==
    /\ pc = "summary"
    /\ summary' = SummaryCounts
    /\ report' = report
        \o (IF missing # <<>> THEN << [part |-> "missing", what |-> missing] >> ELSE <<>>)
        \o << [part |-> "summary", what |-> <<>>] >>
    /\ exitCode' = IF had_findings THEN 1 ELSE 0
    /\ pc' = "exited"
    /\ UNCHANGED <<pushVars, syncVars, cfgVars, classVars, envVars>>
    /\ UNCHANGED <<git_violations, missing, diverged, jinja_files, pre_existing,
                   jinja_non_git, had_findings>>

\* a run of the drift detector: a template tree, a configuration, answers
\* and an app; the app's files and git history do not change during the run
Init ==
    /\ PushIdle
    /\ SyncIdle
    /\ pc = "start"
    /\ exitCode = -1
    /\ tree \in {t \in SUBSET DriftPaths : Cardinality(t) <= MaxDriftFiles}
    /\ skipCfg \in SUBSET SkipCandidates
    /\ excludeCfg = <<IfNotRule("use_a", <<"d">>)>>
    /\ answers \in UNION {[D -> BOOLEAN] : D \in SUBSET {"use_a"}}
    /\ appExists \in [TreeOutputs(tree) -> BOOLEAN]
    /\ appModified \in [TreeOutputs(tree) -> BOOLEAN]
    /\ appSame \in [TreeSources(tree) -> BOOLEAN]
    /\ \A src \in TreeSources(tree) : appSame[src] => appExists[src]
    /\ excluded = {}
    /\ template_owned = <<>>
    /\ app_owned = <<>>
    /\ excluded_files = <<>>
    /\ git_violations = <<>>
    /\ missing = <<>>
    /\ diverged = <<>>
    /\ jinja_files = <<>>
    /\ pre_existing = <<>>
    /\ jinja_non_git = <<>>
    /\ had_findings = FALSE
    /\ summary = <<>>
    /\ report = <<>>

Next ==
    \/ CheckPreconditions
    \/ LoadAndClassify
    \/ FindCopierCommit
    \/ GitSection
    \/ SourceSection
    \/ MissingAndSummary

Spec == Init /\ [][Next]_vars

(***************************************************************************)
(* Claims about the classification (checked under SpecClassify)            *)
(***************************************************************************)
Classified == pc # "load"

\* the output paths of the three classes
OwnedOut == {template_owned[i].out : i \in 1..Len(template_owned)}
AppOut == SeqToSet(app_owned)
ExcludedOut == SeqToSet(excluded_files)

\* C4: classify_files puts each enumerated file in exactly one of
\* template-owned, app-owned, excluded: the three results are pairwise
\* disjoint and together hold every enumerated file (and nothing else).
C4_ClassesPartitionTheFiles ==
    Classified =>
        LET all == enumerate_template_files
        IN  /\ OwnedOut \cap AppOut = {}
            /\ OwnedOut \cap ExcludedOut = {}
            /\ AppOut \cap ExcludedOut = {}
            /\ OwnedOut \cup AppOut \cup ExcludedOut = {all[i].out : i \in 1..Len(all)}
            /\ SeqToSet(template_owned) \subseteq SeqToSet(all)
            /\ Len(template_owned) + Len(app_owned) + Len(excluded_files) = Len(all)

\* C4 witness: a classification in which all three classes are inhabited
C4_Witness ==
    /\ Classified
    /\ template_owned # <<>>
    /\ app_owned # <<>>
    /\ excluded_files # <<>>

\* the _exclude entries of the shape {% if not FLAG %}PATH{% endif %}, with
\* any white space the pattern allows: [flag, path] of entry i, if it is one
ShapedRule(i) ==
    {r \in [flag : Flags, path : {<<"d">>, <<"d", "/", "y">>, <<"x">>}] :
        excludeCfg[i] \in {IfNotRule(r.flag, r.path), IfNotRuleSpaced(r.flag, r.path)}}

FlagFalseOrAbsent(flag) == flag \notin DOMAIN answers \/ answers[flag] = FALSE

\* C9: evaluate_excludes puts the PATH of a rule {% if not FLAG %}PATH{%
\* endif %} in the excluded set exactly when FLAG is false in or absent from
\* the answers (the set holds the paths so put and nothing else), and a
\* file whose output path equals an excluded PATH and is not app-owned is
\* classified excluded, not template-owned.
C9_ExcludedIffFlagFalseOrAbsent ==
    Classified =>
        /\ excluded =
            {r.path : r \in {q \in UNION {ShapedRule(i) : i \in 1..Len(excludeCfg)} :
                                FlagFalseOrAbsent(q.flag)}}
        /\ \A i \in 1..Len(excludeCfg) : \A r \in ShapedRule(i) :
            /\ FlagFalseOrAbsent(r.flag) => r.path \in excluded
            /\ (r.path \in excluded /\ ~FlagFalseOrAbsent(r.flag)) =>
                \E j \in 1..Len(excludeCfg) : \E q \in ShapedRule(j) :
                    q.path = r.path /\ FlagFalseOrAbsent(q.flag)
        /\ LET all == enumerate_template_files
           IN  \A k \in 1..Len(all) :
                (all[k].out \in excluded /\ all[k].out \notin skipCfg) =>
                    /\ all[k].out \in ExcludedOut
                    /\ all[k].out \notin OwnedOut

\* C9 witness: a flag absent from the answers excludes the path of its rule,
\* a rule whose flag is true excludes nothing, and a template file with the
\* excluded path is classified excluded
C9_Witness ==
    /\ Classified
    /\ "use_b" \notin DOMAIN answers
    /\ "use_a" \in DOMAIN answers /\ answers["use_a"]
    /\ excludeCfg = <<IfNotRule("use_a", <<"d">>), IfNotRule("use_b", <<"d", "/", "y">>)>>
    /\ excluded = {<<"d", "/", "y">>}
    /\ <<"d", "/", "y">> \in ExcludedOut

\* the path lies under the directory e: e, then a separator, then more
Under(path, e) ==
    \E n \in 1..Len(path) : n = Len(e) + 1 /\ path[n] = "/" /\ [i \in 1..Len(e) |-> path[i]] = e

\* C10: exact membership of the output path in _skip_if_exists takes
\* precedence over exclusion: such a path is app-owned even when it equals
\* an excluded path or lies under one; a path is classified excluded
\* exactly when it is not in _skip_if_exists and equals an excluded entry
\* or starts with an excluded entry plus "/"; every other file is
\* template-owned.
C10_SkipBeforeExcluded ==
    Classified =>
        LET all == enumerate_template_files
        IN  \A k \in 1..Len(all) :
            LET out == all[k].out
                hit == out \in excluded \/ \E e \in excluded : Under(out, e)
            IN  /\ out \in AppOut <=> out \in skipCfg
                /\ out \in ExcludedOut <=> (out \notin skipCfg /\ hit)
                /\ out \in OwnedOut <=> (out \notin skipCfg /\ ~hit)

\* C10 witness: d/y is listed in _skip_if_exists and lies under the
\* excluded directory d; dx, which only starts with the letters of d, is
\* template-owned
C10_Witness ==
    /\ Classified
    /\ <<"d", "/", "y">> \in skipCfg
    /\ <<"d">> \in excluded
    /\ <<"d", "/", "y">> \in AppOut
    /\ <<"d", "x">> \in OwnedOut

\* C12: for every enumerated template source path: if the path ends in
\* ".jinja", the output path does not end in ".jinja"; otherwise the output
\* path equals the source path.
C12_OutputNeverKeepsSuffix ==
    Classified =>
        LET all == enumerate_template_files
        IN  \A k \in 1..Len(all) :
                IF EndsWithJinja(all[k].src)
                THEN ~EndsWithJinja(all[k].out)
                ELSE all[k].out = all[k].src

\* C12 as amended: a source path that ends in ".jinja" is a Jinja file and
\* its output path is the source path without its last ".jinja" (one
\* suffix is removed, so the output still ends in ".jinja" exactly when the
\* source ends in ".jinja.jinja"); any other path is not a Jinja file and
\* its output path equals the source path.
C12_OneSuffixRemoved ==
    LET all == enumerate_template_files
    IN  \A k \in 1..Len(all) :
            LET f == all[k]
            IN  IF f.src # <<>> /\ f.src[Len(f.src)] = ".jinja"
                THEN /\ f.jinja
                     /\ f.src = f.out \o <<".jinja">>
                     /\ (f.out # <<>> /\ f.out[Len(f.out)] = ".jinja")
                            <=> (Len(f.src) >= 2 /\ f.src[Len(f.src) - 1] = ".jinja")
                ELSE ~f.jinja /\ f.out = f.src

\* C12 witness: the inventory was classified with x.jinja.jinja, x.jinja
\* and a file without the suffix in it
C12_Witness ==
    /\ Classified
    /\ [out |-> <<"x", ".jinja">>, src |-> <<"x", ".jinja", ".jinja">>, jinja |-> TRUE]
            \in SeqToSet(template_owned)
    /\ [out |-> <<"x">>, src |-> <<"x", ".jinja">>, jinja |-> TRUE] \in SeqToSet(template_owned)
    /\ [out |-> <<"d", "x">>, src |-> <<"d", "x">>, jinja |-> FALSE] \in SeqToSet(template_owned)

(***************************************************************************)
(* Claims about the drift detector's run (checked under Spec)              *)
(***************************************************************************)
\* the run passed its preconditions and ended after the summary
ReportDone ==
    /\ pc = "exited"
    /\ \E i \in 1..Len(report) : report[i].part = "summary"

\* how often x occurs in the list s
Occurrences(s, x) == Cardinality({i \in 1..Len(s) : s[i] = x})

PreExistingFiles == {pre_existing[i].file : i \in 1..Len(pre_existing)}
JinjaListedFiles == {jinja_non_git[i].file : i \in 1..Len(jinja_non_git)}

\* C2: once the preconditions pass, the exit code is non-zero if and only
\* if a post-adoption violation, a pre-existing divergence or a missing
\* template-owned file was found.
C2_ExitCodeIffFindings ==
    ReportDone =>
        (exitCode # 0 <=>
            (git_violations # <<>> \/ pre_existing # <<>> \/ missing # <<>>))

\* C3: the five summary counts (matching exactly, Jinja files to verify,
\* post-adoption violations, pre-existing divergences, missing files) count
\* pairwise disjoint sets of files and add up to the number of
\* template-owned files.
C3_SummaryCountsAddUp ==
    ReportDone =>
        /\ summary.match + summary.jinja + summary.git + summary.pre + summary.missing
            = Len(template_owned)
        /\ summary.match >= 0
        /\ SeqToSet(git_violations) \cap PreExistingFiles = {}
        /\ SeqToSet(git_violations) \cap SeqToSet(missing) = {}
        /\ PreExistingFiles \cap SeqToSet(missing) = {}

\* C5: a file whose output path is listed in _skip_if_exists never appears
\* in a drift finding (post-adoption violation, pre-existing divergence,
\* missing, Jinja-unverifiable), whatever its content, history or presence.
C5_AppOwnedNeverReported ==
    \A out \in skipCfg :
        /\ out \notin SeqToSet(git_violations)
        /\ out \notin SeqToSet(missing)
        /\ out \notin {diverged[i].file : i \in 1..Len(diverged)}
        /\ out \notin {jinja_files[i].file : i \in 1..Len(jinja_files)}
        /\ out \notin PreExistingFiles
        /\ out \notin JinjaListedFiles
        /\ \A i \in 1..Len(report) :
            /\ report[i].part \in {"post_adoption", "missing"} =>
                \A k \in 1..Len(report[i].what) : report[i].what[k] # out
            /\ report[i].part \in {"pre_existing", "jinja", "also_diverged"} =>
                \A k \in 1..Len(report[i].what) : report[i].what[k].file # out

\* C5 witness: the report is done; x is app-owned, was modified since the
\* baseline and differs from the template, and another file is a finding
C5_Witness ==
    /\ ReportDone
    /\ <<"x">> \in skipCfg
    /\ <<"x">> \in SeqToSet(app_owned)
    /\ <<"x">> \in tree
    /\ appExists[<<"x">>] /\ appModified[<<"x">>] /\ ~appSame[<<"x">>]
    /\ git_violations # <<>>

\* C7: a template-owned file that was modified since the baseline commit
\* and whose bytes differ from the template source is reported exactly
\* once, in the post-adoption category, and in no other category.
C7_ModifiedAndDivergedReportedOnce ==
    ReportDone =>
        \A i \in 1..Len(template_owned) :
            LET f == template_owned[i]
            IN  (~f.jinja /\ appExists[f.out] /\ appModified[f.out] /\ ~appSame[f.src]) =>
                    /\ Occurrences(git_violations, f.out) = 1
                    /\ f.out \notin PreExistingFiles
                    /\ f.out \notin SeqToSet(missing)
                    /\ f.out \notin JinjaListedFiles

\* in how many of the four finding categories the output path appears
Categories(out) ==
    (IF out \in SeqToSet(git_violations) THEN 1 ELSE 0)
    + (IF out \in PreExistingFiles THEN 1 ELSE 0)
    + (IF out \in SeqToSet(missing) THEN 1 ELSE 0)
    + (IF out \in JinjaListedFiles THEN 1 ELSE 0)

\* C15: in the final report every template-owned output path appears in at
\* most one of the categories post-adoption violation, pre-existing
\* divergence, missing, Jinja-unverifiable; a file absent from the app is
\* reported only as missing even if git shows it changed, and a Jinja file
\* modified since the baseline only as a post-adoption violation.
C15_AtMostOneCategory ==
    ReportDone =>
        \A i \in 1..Len(template_owned) :
            LET f == template_owned[i]
            IN  /\ Categories(f.out) <= 1
                /\ ~appExists[f.out] =>
                    (f.out \in SeqToSet(missing) /\ Categories(f.out) = 1)
                /\ (f.jinja /\ appExists[f.out] /\ appModified[f.out]) =>
                    (f.out \in SeqToSet(git_violations) /\ Categories(f.out) = 1)

\* the four precondition failures
PreconditionErrors == {"no_answers", "no_src_path", "no_copier_yml", "no_commit"}

\* C16: when a precondition of the drift detector fails (no
\* .copier-answers.yml, template repository not resolvable, no copier.yml,
\* no commit that modified .copier-answers.yml), the tool prints one error
\* line and exits with code 1 before any part of the report: a run that
\* ended without its summary printed exactly one line, the error of a
\* precondition, and exit code 1; no error line is ever printed beside a
\* part of the report.
C16_PreconditionFailureExitsFirst ==
    /\ (pc = "exited" /\ ~ReportDone) =>
        /\ Len(report) = 1
        /\ report[1].part = "error"
        /\ report[1].what \in PreconditionErrors
        /\ exitCode = 1
    /\ (\E i \in 1..Len(report) : report[i].part = "error") =>
        /\ Len(report) = 1
        /\ pc = "exited"
        /\ exitCode = 1

\* C16 witness: the files were classified, then no commit was found that
\* modified .copier-answers.yml, and the run has ended
C16_Witness ==
    /\ pc = "exited"
    /\ template_owned # <<>>
    /\ report = << [part |-> "error", what |-> "no_commit"] >>
    /\ exitCode = 1

(***************************************************************************)
(* Claims about changes_since_sync.py (checked under SpecSync)             *)
(***************************************************************************)
\* repository i is copier-managed and no commit touches its answers file
NoSyncCommit(i) ==
    /\ repoFacts[i].answers
    /\ (repoFacts[i].sync.rc # 0 \/ repoFacts[i].sync.stdout = <<>>)

\* the repositories with an answers file, in enumeration order
RECURSIVE ManagedFrom(_)
ManagedFrom(i) ==
    IF i > Len(repoFacts) THEN <<>>
    ELSE (IF repoFacts[i].answers THEN <<i>> ELSE <<>>) \o ManagedFrom(i + 1)

\* C11: a copier-managed repository with no commit touching
\* .copier-answers.yml produces an error entry for that repository only,
\* and every later repository in the enumeration is still processed and
\* reported: at the end every repository was read, and the printed entries
\* are those of the copier-managed repositories, in order, an error entry
\* exactly for the ones without a sync commit.
C11_ErrorEntryAndContinue ==
    pc = "exited" =>
        LET managed == ManagedFrom(1)
        IN  /\ Len(repoFacts) = Len(repos)
            /\ managed # <<>> =>
                /\ Len(printedRepos) = Len(managed)
                /\ \A k \in 1..Len(managed) :
                    /\ printedRepos[k].name = repos[managed[k]].name
                    /\ printedRepos[k].path = repos[managed[k]].path
                    /\ printedRepos[k].kind = "error" <=> NoSyncCommit(managed[k])
                    /\ printedRepos[k].kind = "report" <=> ~NoSyncCommit(managed[k])

\* C11 witness: the run has ended; a repository without a sync commit got
\* its error entry and a later repository got its report
C11_Witness ==
    /\ pc = "exited"
    /\ \E i, j \in 1..Len(repoFacts) :
        /\ i < j
        /\ NoSyncCommit(i)
        /\ repoFacts[j].answers /\ ~NoSyncCommit(j)
        /\ \E k, l \in 1..Len(printedRepos) :
            /\ k < l
            /\ printedRepos[k].kind = "error" /\ printedRepos[k].name = repos[i].name
            /\ printedRepos[l].kind = "report" /\ printedRepos[l].name = repos[j].name

(***************************************************************************)
(* Claims about push_all.py and workspace.py (checked under SpecPush)      *)
(***************************************************************************)
\* a repository has uncommitted changes: its status output names a file
HasChanges(status) == \E k \in 1..Len(status.stdout) : status.stdout[k] # ""

DirtyIdx == {i \in 1..Len(statusRes) : HasChanges(statusRes[i])}

\* the changed files of a status output: its non-blank lines
ChangedFiles(status) == SelectSeq(status.stdout, LAMBDA l : l # "")

PreflightOver == pc \in {"push", "exited"} \/ (pc = "preflight" /\ idx > Len(repos))

\* C1: when at least one repository is dirty at pre-flight, no `git push`
\* and no `git push --tags` is ever executed on any repository, the push
\* loop is never entered, and the run ends with exit code 1 having printed
\* every dirty repository (and no other) with its changed files.
C1_DirtyAbortsBeforeAnyPush ==
    (PreflightOver /\ DirtyIdx # {}) =>
        /\ cmdLog = <<>>
        /\ pc # "push"
        /\ pc = "exited" =>
            /\ exitCode = 1
            /\ \A i \in DirtyIdx :
                \E k \in 1..Len(printed) :
                    /\ printed[k].name = repos[i].name
                    /\ printed[k].path = repos[i].path
                    /\ printed[k].changes = ChangedFiles(statusRes[i])
            /\ Len(printed) = Cardinality(DirtyIdx)

\* C1 witness: the run has ended on a dirty repository while another
\* repository was clean
C1_Witness ==
    /\ pc = "exited"
    /\ exitCode = 1
    /\ Len(repos) >= 3
    /\ \E i \in DirtyIdx : \E j \in 1..Len(statusRes) :
        /\ i < j
        /\ statusRes[j].rc = 0
        /\ ~HasChanges(statusRes[j])

\* C6: a repository whose pre-flight `git status` failed (non-zero exit, no
\* output) is not treated as clean: no push is made after such a failure.
C6_FailedStatusIsNotClean ==
    (\E i \in 1..Len(statusRes) : statusRes[i].rc # 0 /\ statusRes[i].stdout = <<>>) =>
        (cmdLog = <<>> /\ pc # "push")

\* C8: every (name, path) pair get_repos returns, the fixed "frontend" and
\* "backend" entries included, has a path that contains a .git entry.
C8_EveryRepoHasGit ==
    pc # "get_repos" => \A i \in 1..Len(repos) : HasGit(repos[i].path)

\* C14: when no repository is dirty at pre-flight, every status query
\* precedes the first push; the pushes are, for each repository in
\* enumeration order, `git push` followed by `git push --tags`, whatever
\* the result of an earlier push; and the run ends with all of them made
\* and does not exit 1.
C14_PushEveryRepoInOrder ==
    /\ cmdLog # <<>> => (Len(statusRes) = Len(repos) /\ DirtyIdx = {})
    /\ \A k \in 1..Len(cmdLog) :
        /\ cmdLog[k].repo = (k + 1) \div 2
        /\ cmdLog[k].cmd = IF k % 2 = 1 THEN "push" ELSE "push --tags"
    /\ Len(cmdLog) % 2 = 0
    /\ (pc = "exited" /\ DirtyIdx = {}) =>
        /\ Len(cmdLog) = 2 * Len(repos)
        /\ exitCode = 0

\* C14 witness: three clean repositories; the push of the first and the
\* tag push of the second failed, and all six commands were run
C14_Witness ==
    /\ pc = "exited"
    /\ Len(repos) = 3
    /\ \A i \in 1..Len(statusRes) : statusRes[i].rc = 0 /\ ~HasChanges(statusRes[i])
    /\ Len(cmdLog) = 6
    /\ cmdLog[1].rc = 1
    /\ cmdLog[4].rc = 1
    /\ exitCode = 0

====
